---- MODULE Spec2Model ----
(***************************************************************************)
(* Model of src/converter.js, class DayOneToObsidian: the conversion of a  *)
(* Day One export (journal entries plus media) into Obsidian Markdown.     *)
(*                                                                         *)
(* JavaScript strings are modelled as sequences of one-character strings,  *)
(* so that the regular-expression rewrites, slices and concatenations of   *)
(* the source are computed character by character.                         *)
(***************************************************************************)
EXTENDS Integers, Sequences, FiniteSets, TLC

VARIABLES
    converter,     \* the DayOneToObsidian object: the fields set by its constructor
    pc,            \* pc[c]: where convert call c stands
    entries,       \* entries[c]: the entries of the journal of call c that its loop has
                   \* reached so far, in order; the loop's i is Len(entries[c])
    converted,     \* converted[c]: the local counter of call c
    outputZip,     \* outputZip[c]: path -> content of the output archive of call c
    error,         \* error[c]: the error call c rejected with
    running,       \* the call whose synchronous entry loop occupies the JS thread, 0 if none
    submitted,     \* number of entries read by the converter so far, over all calls
    uText,         \* unescape study: the input text
    uOnce,         \* unescape study: unescapeDayoneMarkdown(uText)
    uTwice,        \* unescape study: unescapeDayoneMarkdown(uOnce)
    upc            \* unescape study: position

vars == <<converter, pc, entries, converted, outputZip, error, running, submitted,
          uText, uOnce, uTwice, upc>>

convVars == <<converter, pc, entries, converted, outputZip, error, running, submitted>>
unescVars == <<uText, uOnce, uTwice, upc>>

----------------------------------------------------------------------------
(* Bounds of the model *)

\* entries read by one converter object, over all its convert calls
MaxEntries == 3
\* convert calls made on one converter object
MaxCalls == 2
\* length of the texts of the unescape study
MaxLen == 4

----------------------------------------------------------------------------
(* Strings *)

Backslash == "\\"
Newline == "\n"
\* U+200B and U+0060, each one code unit, under a name
ZeroWidthSpace == "u200B"
Backtick == "u0060"

\* JS null (extractTitle) and undefined (an absent field); no string equals them
Null == <<"null">>
Undefined == <<"undefined">>

Min(a, b) == IF a < b THEN a ELSE b

\* String.prototype.slice(0, n)
Slice0(s, n) == SubSeq(s, 1, Min(n, Len(s)))

\* the rest of s from position k on
From(s, k) == SubSeq(s, k, Len(s))

\* whether pat occurs in s at position k
StartsWith(s, k, pat) ==
    /\ k + Len(pat) - 1 <= Len(s)
    /\ SubSeq(s, k, k + Len(pat) - 1) = pat

\* the characters \s matches, among those of the model
IsSpace(ch) == ch \in {" ", "\n", "\t"}

\* first position >= k of s whose character is not in set, Len(s)+1 if none
RECURSIVE RunEnd(_, _, _)
RunEnd(s, k, set) ==
    IF k > Len(s) \/ s[k] \notin set THEN k ELSE RunEnd(s, k + 1, set)

\* first position >= k of s whose character is ch, 0 if none
RECURSIVE IndexOf(_, _, _)
IndexOf(s, k, ch) ==
    IF k > Len(s) THEN 0 ELSE IF s[k] = ch THEN k ELSE IndexOf(s, k + 1, ch)

\* String.prototype.trim
RECURSIVE TrimStart(_)
TrimStart(s) == IF s # <<>> /\ IsSpace(s[1]) THEN TrimStart(Tail(s)) ELSE s
RECURSIVE TrimEnd(_)
TrimEnd(s) ==
    IF s # <<>> /\ IsSpace(s[Len(s)]) THEN TrimEnd(SubSeq(s, 1, Len(s) - 1)) ELSE s
Trim(s) == TrimEnd(TrimStart(s))

----------------------------------------------------------------------------
(* unescapeDayoneMarkdown *)

\* the marks of the thirteen replace calls, in their order
EscapedMarks == <<".", "-", "(", ")", "[", "]", "#", ">", "_", "*", Backtick, "~", "!">>

\* a variant of ReplaceEscaped without the g flag: only the first backslash-mark
\* pair loses its backslash
RECURSIVE ReplaceEscapedFirst(_, _)
ReplaceEscapedFirst(text, mark) ==
    IF text = <<>> THEN <<>>
    ELSE IF Len(text) >= 2 /\ text[1] = Backslash /\ text[2] = mark
         THEN <<mark>> \o From(text, 3)
         ELSE <<text[1]>> \o ReplaceEscapedFirst(Tail(text), mark)

\* text.replace(/\\<mark>/g, '<mark>'): left to right, matches do not overlap
RECURSIVE ReplaceEscaped(_, _)
ReplaceEscaped(text, mark) ==
    IF text = <<>> THEN <<>>
    ELSE IF Len(text) >= 2 /\ text[1] = Backslash /\ text[2] = mark
         THEN <<mark>> \o ReplaceEscaped(From(text, 3), mark)
         ELSE <<text[1]>> \o ReplaceEscaped(Tail(text), mark)

RECURSIVE UnescapeFrom(_, _)
UnescapeFrom(text, k) ==
    IF k > Len(EscapedMarks) THEN text
    ELSE UnescapeFrom(ReplaceEscaped(text, EscapedMarks[k]), k + 1)

unescapeDayoneMarkdown(text) == UnescapeFrom(text, 1)

----------------------------------------------------------------------------
(* hashString *)

\* String.prototype.charCodeAt for the characters of the model
CharCode(ch) ==
    CASE ch = "\n" -> 10  [] ch = "\t" -> 9   [] ch = " " -> 32  [] ch = "!" -> 33
      [] ch = "\"" -> 34  [] ch = "#" -> 35   [] ch = "(" -> 40  [] ch = ")" -> 41
      [] ch = "*" -> 42   [] ch = "-" -> 45   [] ch = "." -> 46  [] ch = "/" -> 47
      [] ch = "0" -> 48   [] ch = "1" -> 49   [] ch = "2" -> 50  [] ch = "3" -> 51
      [] ch = "4" -> 52   [] ch = "5" -> 53   [] ch = "6" -> 54  [] ch = "7" -> 55
      [] ch = "8" -> 56   [] ch = "9" -> 57   [] ch = ":" -> 58  [] ch = "<" -> 60
      [] ch = ">" -> 62   [] ch = "?" -> 63   [] ch = "A" -> 65  [] ch = "B" -> 66
      [] ch = "C" -> 67   [] ch = "D" -> 68   [] ch = "E" -> 69  [] ch = "F" -> 70
      [] ch = "H" -> 72   [] ch = "T" -> 84   [] ch = "Z" -> 90  [] ch = "[" -> 91
      [] ch = "\\" -> 92  [] ch = "]" -> 93   [] ch = "_" -> 95  [] ch = Backtick -> 96
      [] ch = "a" -> 97   [] ch = "b" -> 98   [] ch = "c" -> 99  [] ch = "d" -> 100
      [] ch = "e" -> 101  [] ch = "f" -> 102  [] ch = "i" -> 105 [] ch = "j" -> 106
      [] ch = "m" -> 109  [] ch = "n" -> 110  [] ch = "o" -> 111 [] ch = "p" -> 112
      [] ch = "t" -> 116  [] ch = "y" -> 121  [] ch = "|" -> 124 [] ch = "~" -> 126
      [] ch = ZeroWidthSpace -> 8203

\* one round of the loop: hash = ((hash << 5) - hash) + char; hash = hash & hash.
\* The 32-bit value is kept as its two 16-bit halves <<high, low>>, unsigned.
HashRound(h, code) ==
    LET low == 31 * h[2] + code
        high == 31 * h[1] + (low \div 65536)
    IN  <<high % 65536, low % 65536>>

RECURSIVE HashFrom(_, _, _)
HashFrom(str, k, h) ==
    IF k > Len(str) THEN h ELSE HashFrom(str, k + 1, HashRound(h, CharCode(str[k])))

HexDigits == <<"0", "1", "2", "3", "4", "5", "6", "7", "8", "9", "a", "b", "c", "d", "e", "f">>

RECURSIVE Hex(_)
Hex(n) ==
    IF n < 16 THEN <<HexDigits[n + 1]>>
    ELSE Hex(n \div 16) \o <<HexDigits[(n % 16) + 1]>>

Hex4(n) ==
    <<HexDigits[(n \div 4096) + 1], HexDigits[((n \div 256) % 16) + 1],
      HexDigits[((n \div 16) % 16) + 1], HexDigits[(n % 16) + 1]>>

HexOfHalves(high, low) == IF high = 0 THEN Hex(low) ELSE Hex(high) \o Hex4(low)

\* Number.prototype.toString(16) of the signed 32-bit integer with halves h
toString16(h) ==
    IF h[1] < 32768 THEN HexOfHalves(h[1], h[2])
    ELSE LET low == (65536 - h[2]) % 65536
             high == 65535 - h[1] + (IF h[2] = 0 THEN 1 ELSE 0)
         IN  <<"-">> \o HexOfHalves(high, low)

hashString(str) == toString16(HashFrom(str, 1, <<0, 0>>))

----------------------------------------------------------------------------
(* Maps (the JS Map objects and the files of a JSZip archive) *)

EmptyMap == <<>>

\* Map.prototype.set, JSZip.prototype.file(name, data): the last write wins
MapSet(m, key, value) ==
    [k \in DOMAIN m \cup {key} |-> IF k = key THEN value ELSE m[k]]

----------------------------------------------------------------------------
(* The constructor *)

constructor(options) ==
    [allowDuplicates |-> options.allowDuplicates,
     photoMap |-> EmptyMap,
     usedFilenames |-> {},
     seenEntries |-> EmptyMap,
     skippedDuplicates |-> 0]

----------------------------------------------------------------------------
(* Deduplication *)

shouldSkipDuplicate(self, entry) ==
    IF self.allowDuplicates THEN FALSE
    ELSE IF entry.uuid = Undefined THEN FALSE
    ELSE IF entry.uuid \in DOMAIN self.seenEntries
         THEN self.seenEntries[entry.uuid] = hashString(entry.text)
         ELSE FALSE

recordEntry(self, entry) ==
    IF entry.uuid = Undefined THEN self
    ELSE [self EXCEPT !.seenEntries = MapSet(@, entry.uuid, hashString(entry.text))]

----------------------------------------------------------------------------
(* buildPhotoMap *)

\* this.photoMap.set(a.identifier, { md5: a.md5, type: a.type || fallback }) for each a of list
RECURSIVE IndexAttachments(_, _, _, _)
IndexAttachments(photoMap, list, fallback, forced) ==
    IF list = <<>> THEN photoMap
    ELSE LET a == Head(list)
             type == IF forced \/ a.type = Undefined THEN fallback ELSE a.type
         IN  IndexAttachments(MapSet(photoMap, a.identifier, [md5 |-> a.md5, type |-> type]),
                              Tail(list), fallback, forced)

buildPhotoMap(self, entry) ==
    LET photos == IndexAttachments(self.photoMap, entry.photos, <<"j", "p", "e", "g">>, FALSE)
        videos == IndexAttachments(photos, entry.videos, <<"m", "o", "v">>, FALSE)
        audios == IndexAttachments(videos, entry.audios, <<"m", "4", "a">>, FALSE)
        pdfs == IndexAttachments(audios, entry.pdfAttachments, <<"p", "d", "f">>, TRUE)
    IN  [self EXCEPT !.photoMap = pdfs]

----------------------------------------------------------------------------
(* buildFrontmatter: the object handed to jsyaml.dump, for the fields the
   entries of the model carry *)

RECURSIVE PhotoMeta(_)
PhotoMeta(photos) ==
    IF photos = <<>> THEN <<>>
    ELSE LET photo == Head(photos)
             type == IF photo.type = Undefined THEN <<"j", "p", "e", "g">> ELSE photo.type
         IN  <<[file |-> photo.md5 \o <<".">> \o type, identifier |-> photo.identifier]>>
             \o PhotoMeta(Tail(photos))

buildFrontmatter(entry) ==
    LET uuid == IF entry.uuid # Undefined THEN "uuid" :> entry.uuid ELSE EmptyMap
        created == IF entry.creationDate # Undefined
                   THEN "created" :> entry.creationDate ELSE EmptyMap
        photos == IF Len(entry.photos) > 0
                  THEN "photos" :> PhotoMeta(entry.photos) ELSE EmptyMap
    IN  uuid @@ created @@ photos

----------------------------------------------------------------------------
(* convertContent *)

MomentPrefix == <<"!", "[", "]", "(", "d", "a", "y", "o", "n", "e", "-", "m", "o", "m", "e", "n", "t", ":", "/", "/">>

\* [A-F0-9]
UpperHex == {"0", "1", "2", "3", "4", "5", "6", "7", "8", "9", "A", "B", "C", "D", "E", "F"}

\* text.replace(/!\[\]\(dayone-moment:\/\/([A-F0-9]+)\)/g, callback)
RECURSIVE convertImageReferences(_, _)
convertImageReferences(self, text) ==
    IF text = <<>> THEN <<>>
    ELSE LET idStart == Len(MomentPrefix) + 1
             idEnd == RunEnd(text, idStart, UpperHex)
             matches == /\ StartsWith(text, 1, MomentPrefix)
                        /\ idEnd > idStart
                        /\ idEnd <= Len(text)
                        /\ text[idEnd] = ")"
             identifier == SubSeq(text, idStart, idEnd - 1)
             replacement ==
                 IF identifier \in DOMAIN self.photoMap
                 THEN LET media == self.photoMap[identifier]
                      IN  <<"!", "[", "[">> \o media.md5 \o <<".">> \o media.type \o <<"]", "]">>
                 ELSE <<"<", "!", "-", "-", " ", "M", "i", "s", "s", "i", "n", "g", " ", "m", "e", "d", "i", "a", ":", " ">> \o identifier \o <<" ", "-", "-", ">">>
         IN  IF matches
             THEN replacement \o convertImageReferences(self, From(text, idEnd + 1))
             ELSE <<text[1]>> \o convertImageReferences(self, Tail(text))

\* text.replace(/\u200B/g, '')
StripZeroWidth(text) == SelectSeq(text, LAMBDA ch : ch # ZeroWidthSpace)

convertContent(self, entry) ==
    StripZeroWidth(convertImageReferences(self, unescapeDayoneMarkdown(entry.text)))

----------------------------------------------------------------------------
(* extractTitle *)

\* slice(0, 50) of the first-line title
TitleSlice == 50

SetMax(S) == CHOOSE x \in S : \A y \in S : y <= x
SetMin(S) == CHOOSE x \in S : \A y \in S : x <= y

\* the positions ^ matches under the m flag
LineStarts(text) == {1} \cup {k + 1 : k \in {j \in 1..Len(text) : text[j] = Newline}}

\* /^#\s+(.+?)(?:\n|\\n|$)/m tried with its # at position p: where the group starts,
\* 0 if there is no match. \s+ is greedy and gives characters back until the
\* character after it is one that . matches (anything but a line break).
HeadingGroupStart(text, p) ==
    LET spaceEnd == RunEnd(text, p + 1, {" ", "\n", "\t"})
        starts == {q \in (p + 2)..spaceEnd : q <= Len(text) /\ text[q] # Newline}
    IN  IF starts = {} THEN 0 ELSE SetMax(starts)

\* .+? is lazy: the group ends before the first position r at which a line break,
\* the two characters backslash n, or the end of the line follows
RECURSIVE HeadingGroupEnd(_, _)
HeadingGroupEnd(text, r) ==
    IF r > Len(text) THEN r
    ELSE IF text[r] = Newline THEN r
    ELSE IF text[r] = Backslash /\ r + 1 <= Len(text) /\ text[r + 1] = "n" THEN r
    ELSE HeadingGroupEnd(text, r + 1)

\* group 1 of the match whose group starts at q
HeadingGroup(text, q) == SubSeq(text, q, HeadingGroupEnd(text, q + 1) - 1)

\* group 1 of the leftmost of the matches whose # stand at the positions at
HeadingAmong(text, at) ==
    IF at = {} THEN Null ELSE HeadingGroup(text, HeadingGroupStart(text, SetMin(at)))

\* text.match(/^#\s+(.+?)(?:\n|\\n|$)/m): group 1 of the leftmost match, Null if none
HeadingMatch(text) ==
    HeadingAmong(text, {p \in LineStarts(text) :
                           /\ p <= Len(text)
                           /\ text[p] = "#"
                           /\ HeadingGroupStart(text, p) # 0})

\* text.split('\n')
RECURSIVE SplitLines(_)
SplitLines(text) ==
    LET nl == IndexOf(text, 1, Newline)
    IN  IF nl = 0 THEN <<text>>
        ELSE <<SubSeq(text, 1, nl - 1)>> \o SplitLines(From(text, nl + 1))

\* lines.find(l => l.trim().length > 0), Undefined if none
RECURSIVE FindNonBlank(_)
FindNonBlank(lines) ==
    IF lines = <<>> THEN Undefined
    ELSE IF Len(Trim(Head(lines))) > 0 THEN Head(lines)
    ELSE FindNonBlank(Tail(lines))

\* line.replace(/!\[\]\(dayone-moment:\/\/[^)]+\)/g, '')
RECURSIVE RemoveMoments(_)
RemoveMoments(line) ==
    IF line = <<>> THEN <<>>
    ELSE LET close == IndexOf(line, Len(MomentPrefix) + 1, ")")
         IN  IF StartsWith(line, 1, MomentPrefix) /\ close > Len(MomentPrefix) + 1
             THEN RemoveMoments(From(line, close + 1))
             ELSE <<line[1]>> \o RemoveMoments(Tail(line))

\* line.replace(/^#+\s*/, '')
StripHeadingMarks(line) ==
    IF line # <<>> /\ line[1] = "#"
    THEN From(line, RunEnd(line, RunEnd(line, 1, {"#"}), {" ", "\n", "\t"}))
    ELSE line

\* lines 418-420: the cleaned first line
FirstLineTitle(title) ==
    IF Len(title) = 0 THEN Null
    ELSE Slice0(unescapeDayoneMarkdown(title), TitleSlice)

\* lines 409-416
TitleOfLine(firstLine) ==
    IF firstLine = Undefined THEN Null
    ELSE FirstLineTitle(Trim(StripHeadingMarks(RemoveMoments(firstLine))))

\* lines 403-408
TitleOfHeading(text, headingMatch) ==
    IF headingMatch # Null THEN Trim(unescapeDayoneMarkdown(headingMatch))
    ELSE TitleOfLine(FindNonBlank(SplitLines(text)))

extractTitle(text) ==
    IF text = <<>> THEN Null ELSE TitleOfHeading(text, HeadingMatch(text))

----------------------------------------------------------------------------
(* generateFilename *)

\* slice(0, 50) of the sanitized title
SafeTitleSlice == 50
\* entry.uuid.slice(0, 8)
UuidSlice == 8

\* [\/\\:*?"<>|]
UnsafeChars == {"/", "\\", ":", "*", "?", "\"", "<", ">", "|"}

\* title.replace(/[\/\\:*?"<>|]/g, '-')
ReplaceUnsafe(title) ==
    [k \in 1..Len(title) |-> IF title[k] \in UnsafeChars THEN "-" ELSE title[k]]

\* title.replace(/\s+/g, ' ')
RECURSIVE CollapseSpaces(_)
CollapseSpaces(s) ==
    IF s = <<>> THEN <<>>
    ELSE IF IsSpace(s[1])
         THEN <<" ">> \o CollapseSpaces(From(s, RunEnd(s, 1, {" ", "\n", "\t"})))
         ELSE <<s[1]>> \o CollapseSpaces(Tail(s))

\* new Date(creationDate).toISOString(), for a creationDate written as
\* YYYY-MM-DDTHH:MM:SSZ (UTC, whole seconds), the form of a Day One export
toISOString(creationDate) == SubSeq(creationDate, 1, 19) \o <<".", "0", "0", "0", "Z">>

\* iso.split('T')[0]
DatePart(iso) == SubSeq(iso, 1, IndexOf(iso, 1, "T") - 1)

\* lines 374-386
BaseFilename(entry, dateStr, title) ==
    IF title # Null /\ Len(title) > 0
    THEN dateStr \o <<" ">>
         \o Slice0(Trim(CollapseSpaces(ReplaceUnsafe(title))), SafeTitleSlice)
    ELSE dateStr \o <<" ">> \o Slice0(entry.uuid, UuidSlice)

\* lines 389-392
Disambiguate(self, entry, baseFilename) ==
    IF (baseFilename \o <<".", "m", "d">>) \in self.usedFilenames
    THEN baseFilename \o <<" ", "(">> \o Slice0(entry.uuid, UuidSlice) \o <<")", ".", "m", "d">>
    ELSE baseFilename \o <<".", "m", "d">>

\* whether entry.uuid.slice is evaluated: without a title (line 385) or on a
\* taken file name (line 391)
UsesUuid(self, title, baseFilename) ==
    \/ ~(title # Null /\ Len(title) > 0)
    \/ (baseFilename \o <<".", "m", "d">>) \in self.usedFilenames

\* lines 394-395
Allocate(self, filename) ==
    [threw |-> FALSE,
     self |-> [self EXCEPT !.usedFilenames = @ \cup {filename}],
     filename |-> filename]

NameEntry(self, entry, title, baseFilename) ==
    IF entry.uuid = Undefined /\ UsesUuid(self, title, baseFilename)
    THEN [threw |-> TRUE, self |-> self, filename |-> Undefined]
    ELSE Allocate(self, Disambiguate(self, entry, baseFilename))

NameTitled(self, entry, dateStr, title) ==
    NameEntry(self, entry, title, BaseFilename(entry, dateStr, title))

\* The result of generateFilename: threw tells whether entry.uuid.slice raised a
\* TypeError (uuid undefined); self is the converter afterwards.
generateFilename(self, entry) ==
    NameTitled(self, entry, DatePart(toISOString(entry.creationDate)),
               extractTitle(entry.text))

----------------------------------------------------------------------------
(* convertEntry *)

\* lines 187-190, with the converter as generateFilename left it
EntryResult(named, frontmatter, content) ==
    [threw |-> named.threw,
     self |-> named.self,
     filename |-> named.filename,
     content |-> [frontmatter |-> frontmatter, content |-> content]]

\* lines 178-190, on the converter after buildPhotoMap
ConvertIndexed(indexed, entry) ==
    EntryResult(generateFilename(indexed, entry), buildFrontmatter(entry),
                convertContent(indexed, entry))

convertEntry(self, entry) == ConvertIndexed(buildPhotoMap(self, entry), entry)

----------------------------------------------------------------------------
(* Inputs: the entries a journal may hold, and the export archives *)

Calls == 1..MaxCalls

\* an entry of the journal: a valid UTC creationDate, a uuid (or none), a text, photos
Entry(uuid, text, photos) ==
    [uuid |-> uuid, text |-> text, creationDate |-> <<"2", "0", "2", "4", "-", "0", "1", "-", "1", "5", "T", "1", "0", ":", "0", "0", ":", "0", "0", "Z">>,
     photos |-> photos, videos |-> <<>>, audios |-> <<>>, pdfAttachments |-> <<>>]

Photo == [identifier |-> <<"A", "B", "1", "2">>, md5 |-> <<"f", "0", "0", "d">>, type |-> Undefined]

EntryPool ==
    { Entry(<<"0", "A", "1", "B", "2", "C", "3", "D", "4", "E">>, <<"#", " ", "a", "\\", ".", "b", "?", "\n", "A", "a">>, <<>>),
      Entry(<<"0", "A", "1", "B", "2", "C", "3", "D", "4", "E">>, <<"a", ".", "b", "?">>, <<>>),
      Entry(<<"0", "A", "1", "B", "2", "C", "3", "D", "4", "E">>, <<"#", " ", "a", "\\", ".", "b", "?", "\n", "A", "a">>, <<Photo>>),
      Entry(<<"A", "B", "/", "C", "D", ":", "0", "1", "2", "3">>, <<"!", "[", "]", "(", "d", "a", "y", "o", "n", "e", "-", "m", "o", "m", "e", "n", "t", ":", "/", "/", "A", "B", "1", "2", ")">>, <<>>),
      Entry(Undefined, <<>>, <<>>) }

\* the media files of an export: photos/f00d.jpeg, the file of Photo
MediaFiles == {<<"p", "h", "o", "t", "o", "s", "/", "f", "0", "0", "d", ".", "j", "p", "e", "g">>}

\* mediaPath.split('/').pop()
RECURSIVE LastSegment(_)
LastSegment(path) ==
    IF IndexOf(path, 1, "/") = 0 THEN path
    ELSE LastSegment(From(path, IndexOf(path, 1, "/") + 1))

NoJsonError == "No JSON file found in ZIP"
TypeError == "TypeError"

----------------------------------------------------------------------------
(* convert.  The archive a call is given is read as the call proceeds: whether it
   holds a journal is decided when the call looks for the .json file, and each
   entry of the journal when the loop reaches it. *)

Init ==
    /\ \E allow \in BOOLEAN : converter = constructor([allowDuplicates |-> allow])
    /\ pc = [c \in Calls |-> "idle"]
    /\ entries = [c \in Calls |-> <<>>]
    /\ converted = [c \in Calls |-> 0]
    /\ outputZip = [c \in Calls |-> EmptyMap]
    /\ error = [c \in Calls |-> Undefined]
    /\ running = 0
    /\ submitted = 0
    /\ uText = <<>> /\ uOnce = <<>> /\ uTwice = <<>> /\ upc = "off"

\* convert(zipFile) is called with JSZip and js-yaml loaded: lines 50-59, up to the
\* await of JSZip.loadAsync
ConvertCall(c) ==
    /\ pc[c] = "idle"
    /\ \A b \in Calls : b < c => pc[b] # "idle"
    /\ pc' = [pc EXCEPT ![c] = "reading"]
    /\ UNCHANGED <<converter, entries, converted, outputZip, error, running, submitted,
                   unescVars>>

\* lines 59-66: the archive is loaded and holds no .json file: the call throws
ConvertNoJson(c) ==
    /\ pc[c] = "reading"
    /\ running = 0
    /\ pc' = [pc EXCEPT ![c] = "failed"]
    /\ error' = [error EXCEPT ![c] = NoJsonError]
    /\ UNCHANGED <<converter, entries, converted, outputZip, running, submitted, unescVars>>

\* lines 59-92: the archive is loaded, the journal is parsed and every media file
\* is copied to attachments/ (the awaits in between touch nothing but the locals
\* of the call)
ConvertRead(c) ==
    /\ pc[c] = "reading"
    /\ running = 0
    /\ outputZip' = [outputZip EXCEPT ![c] =
          [path \in {<<"a", "t", "t", "a", "c", "h", "m", "e", "n", "t", "s", "/">> \o LastSegment(m) : m \in MediaFiles} |-> "media"]]
    /\ pc' = [pc EXCEPT ![c] = "converting"]
    /\ UNCHANGED <<converter, entries, converted, error, running, submitted, unescVars>>

\* the loop of lines 95-118 contains no await: once a call is in it no other call
\* takes a step until it leaves it
InLoop(c) ==
    /\ pc[c] = "converting"
    /\ running \in {0, c}

\* line 96: the loop reaches the next entry of the journal
NextEntry(c, entry) ==
    /\ InLoop(c)
    /\ submitted < MaxEntries
    /\ entries' = [entries EXCEPT ![c] = Append(@, entry)]
    /\ submitted' = submitted + 1

\* a variant of SkipEntry in which buildPhotoMap runs on the entry before it is skipped
SkipEntryIndexing(c) ==
    \E entry \in EntryPool :
        /\ NextEntry(c, entry)
        /\ shouldSkipDuplicate(converter, entry)
        /\ converter' = [buildPhotoMap(converter, entry) EXCEPT !.skippedDuplicates = @ + 1]
        /\ running' = c
        /\ UNCHANGED <<pc, converted, outputZip, error, unescVars>>

\* lines 96-101: the entry is a duplicate and is skipped
SkipEntry(c) ==
    \E entry \in EntryPool :
        /\ NextEntry(c, entry)
        /\ shouldSkipDuplicate(converter, entry)
        /\ converter' = [converter EXCEPT !.skippedDuplicates = @ + 1]
        /\ running' = c
        /\ UNCHANGED <<pc, converted, outputZip, error, unescVars>>

\* lines 103-109: the result of convertEntry is written to entries/ and the
\* entry is recorded
WriteResult(c, entry, result) ==
    /\ ~result.threw
    /\ outputZip' = [outputZip EXCEPT ![c] =
          MapSet(@, <<"e", "n", "t", "r", "i", "e", "s", "/">> \o result.filename, result.content)]
    /\ converted' = [converted EXCEPT ![c] = @ + 1]
    /\ converter' = IF converter.allowDuplicates THEN result.self
                    ELSE recordEntry(result.self, entry)

\* lines 96-109: the entry is converted, written and recorded
WriteEntry(c) ==
    \E entry \in EntryPool :
        /\ NextEntry(c, entry)
        /\ ~shouldSkipDuplicate(converter, entry)
        /\ WriteResult(c, entry, convertEntry(converter, entry))
        /\ running' = c
        /\ UNCHANGED <<pc, error, unescVars>>

\* line 103: convertEntry threw
ThrowResult(result) ==
    /\ result.threw
    /\ converter' = result.self

\* lines 96-103: generateFilename throws on entry.uuid.slice, after buildPhotoMap
\* has run; the exception leaves convert and the call rejects
ThrowEntry(c) ==
    \E entry \in EntryPool :
        /\ NextEntry(c, entry)
        /\ ~shouldSkipDuplicate(converter, entry)
        /\ ThrowResult(convertEntry(converter, entry))
        /\ pc' = [pc EXCEPT ![c] = "failed"]
        /\ error' = [error EXCEPT ![c] = TypeError]
        /\ running' = 0
        /\ UNCHANGED <<converted, outputZip, unescVars>>

\* lines 120-135: the journal has no further entry and the loop is over; the
\* output archive is generated and returned
ConvertComplete(c) ==
    /\ InLoop(c)
    /\ pc' = [pc EXCEPT ![c] = "done"]
    /\ running' = 0
    /\ UNCHANGED <<converter, entries, converted, outputZip, error, submitted, unescVars>>

Next ==
    \E c \in Calls :
        \/ ConvertCall(c)
        \/ ConvertNoJson(c)
        \/ ConvertRead(c)
        \/ SkipEntry(c)
        \/ WriteEntry(c)
        \/ ThrowEntry(c)
        \/ ConvertComplete(c)

Spec == Init /\ [][Next]_vars

----------------------------------------------------------------------------
(* unescapeDayoneMarkdown applied once and twice to every text of at most MaxLen
   characters over a backslash, two of the marks and an ordinary character *)

UnescapeAlphabet == {Backslash, ".", "-", "a"}

Texts(n) == UNION {[1..k -> UnescapeAlphabet] : k \in 0..n}

InitU ==
    /\ uText \in Texts(MaxLen)
    /\ uOnce = <<>> /\ uTwice = <<>> /\ upc = "input"
    /\ converter = constructor([allowDuplicates |-> FALSE])
    /\ pc = [c \in Calls |-> "idle"]
    /\ entries = [c \in Calls |-> <<>>]
    /\ converted = [c \in Calls |-> 0]
    /\ outputZip = [c \in Calls |-> EmptyMap]
    /\ error = [c \in Calls |-> Undefined]
    /\ running = 0
    /\ submitted = 0

UnescapeOnce ==
    /\ upc = "input"
    /\ uOnce' = unescapeDayoneMarkdown(uText)
    /\ upc' = "once"
    /\ UNCHANGED <<uText, uTwice, convVars>>

UnescapeTwice ==
    /\ upc = "once"
    /\ uTwice' = unescapeDayoneMarkdown(uOnce)
    /\ upc' = "twice"
    /\ UNCHANGED <<uText, uOnce, convVars>>

NextU == UnescapeOnce \/ UnescapeTwice

SpecU == InitU /\ [][NextU]_vars

----------------------------------------------------------------------------
(* A conversion on its own: the loop of convert run from a converter fresh out of
   the constructor *)

\* lines 103-109 on the run so far
RunResult(run, entry, result) ==
    IF result.threw THEN [run EXCEPT !.self = result.self, !.failed = TRUE]
    ELSE [self |-> IF run.self.allowDuplicates THEN result.self
                   ELSE recordEntry(result.self, entry),
          converted |-> run.converted + 1,
          outputZip |-> MapSet(run.outputZip, <<"e", "n", "t", "r", "i", "e", "s", "/">> \o result.filename,
                               result.content),
          failed |-> FALSE]

\* one iteration, lines 96-109
RunStep(run, entry) ==
    IF shouldSkipDuplicate(run.self, entry)
    THEN [run EXCEPT !.self.skippedDuplicates = @ + 1]
    ELSE RunResult(run, entry, convertEntry(run.self, entry))

RECURSIVE RunLoop(_, _)
RunLoop(run, es) ==
    IF es = <<>> \/ run.failed THEN run ELSE RunLoop(RunStep(run, Head(es)), Tail(es))

FreshRun(allow, es) ==
    RunLoop([self |-> constructor([allowDuplicates |-> allow]),
             converted |-> 0,
             outputZip |-> [path \in {<<"a", "t", "t", "a", "c", "h", "m", "e", "n", "t", "s", "/">> \o LastSegment(m) : m \in MediaFiles}
                              |-> "media"],
             failed |-> FALSE], es)

\* the media index holding the attachments every entry of es declares
RECURSIVE DeclaredBy(_, _)
DeclaredBy(self, es) ==
    IF es = <<>> THEN self ELSE DeclaredBy(buildPhotoMap(self, Head(es)), Tail(es))

----------------------------------------------------------------------------
(* Claims *)

\* the paths of an archive under entries/
EntryPaths(zip) == {path \in DOMAIN zip : StartsWith(path, 1, <<"e", "n", "t", "r", "i", "e", "s", "/">>)}

\* the entry the loop of call c reads in this step
Last(s) == s[Len(s)]
Reads(c) == Len(entries'[c]) = Len(entries[c]) + 1

SameEntry(a, b) == a.uuid = b.uuid /\ a.text = b.text

Occurrences(es, e) == {j \in 1..Len(es) : SameEntry(es[j], e)}

\* C1: with deduplication enabled, when the loop reads an entry whose identifier and
\* body occurred once before in the list, the entry is skipped: no file is written
\* and skippedDuplicates grows by exactly one.
C1_SecondOccurrenceSkipped ==
    [][\A c \in Calls :
          (/\ Reads(c)
           /\ ~converter.allowDuplicates
           /\ Last(entries'[c]).uuid # Undefined
           /\ Cardinality(Occurrences(entries[c], Last(entries'[c]))) = 1)
          => /\ converter'.skippedDuplicates = converter.skippedDuplicates + 1
             /\ outputZip'[c] = outputZip[c]]_vars

\* C2: with deduplication disabled nothing is skipped, and a finished call has
\* written as many distinct paths under entries/ as its journal has entries.
C2_OneFilePerEntry ==
    converter.allowDuplicates =>
        /\ converter.skippedDuplicates = 0
        /\ \A c \in Calls :
              pc[c] = "done" => Cardinality(EntryPaths(outputZip[c])) = Len(entries[c])

\* C3: within one run no file name is returned twice: the entries converted so far
\* are as many as the distinct paths written under entries/.
C3_DistinctFilenames ==
    \A c \in Calls : Cardinality(EntryPaths(outputZip[c])) = converted[c]

\* the longest name a title of SafeTitleSlice characters gives: date, space, title,
\* the disambiguating suffix, the extension
LongestFilename ==
    Len(<<"2", "0", "2", "4", "-", "0", "1", "-", "1", "5", " ">>) + SafeTitleSlice + Len(<<" ", "(", "1", "2", "3", "4", "5", "6", "7", "8", ")">>) + Len(<<".", "m", "d">>)

\* C4: no file name generateFilename returned holds one of / \ : * ? " < > |, and
\* its title part has at most 50 characters.
C4_SafeFilenames ==
    \A filename \in converter.usedFilenames :
        /\ \A k \in 1..Len(filename) : filename[k] \notin UnsafeChars
        /\ Len(filename) <= LongestFilename

\* C5: the conversion state is not shared between convert calls: what a finished call
\* wrote and how many entries it converted are what the same journal gives on a
\* converter fresh out of the constructor.
C5_RunsIndependent ==
    \A c \in Calls :
        pc[c] = "done" =>
            /\ outputZip[c] = FreshRun(converter.allowDuplicates, entries[c]).outputZip
            /\ converted[c] = FreshRun(converter.allowDuplicates, entries[c]).converted

\* whether text holds a placeholder
HasPlaceholder(text) ==
    \E k \in 1..Len(text) : StartsWith(text, k, MomentPrefix)

\* C6: when an entry is written, its body is the one rewritten with exactly the
\* attachments declared by that entry and the earlier entries of the list (a
\* placeholder of any other identifier becoming the Missing media comment), and an
\* entry with a placeholder does not abort the call.
C6_ResolvesDeclared ==
    [][\A c \in Calls :
          /\ (Reads(c) /\ converted'[c] = converted[c] + 1)
             => \E path \in EntryPaths(outputZip'[c]) :
                   outputZip'[c][path].content =
                       convertContent(DeclaredBy(constructor([allowDuplicates |-> FALSE]),
                                                 entries'[c]),
                                      Last(entries'[c]))
          /\ (Reads(c) /\ HasPlaceholder(Last(entries'[c]).text))
             => pc'[c] # "failed"]_vars

\* C7: no entry aborts the run: a call fails only for an archive without a journal.
C7_NoEntryAborts ==
    \A c \in Calls : pc[c] = "failed" => error[c] = NoJsonError

\* whether text is made only of backslash-escaped marks
EscapedMarksOnly(text) ==
    /\ Len(text) % 2 = 0
    /\ \A k \in 1..Len(text) :
          IF k % 2 = 1 THEN text[k] = Backslash
          ELSE \E m \in 1..Len(EscapedMarks) : text[k] = EscapedMarks[m]

\* the marks of such a text
MarksOf(text) == [k \in 1..(Len(text) \div 2) |-> text[2 * k]]

\* C8: unescaping twice gives what unescaping once gives, for every text; and a text
\* made only of backslash-escaped marks becomes its marks, no backslash left.
C8_Idempotent ==
    /\ upc = "twice" => uTwice = uOnce
    /\ (upc \in {"once", "twice"} /\ EscapedMarksOnly(uText)) => uOnce = MarksOf(uText)

\* whether text holds a backslash, a second backslash and then a mark
EscapedBackslashMark(text) ==
    \E k \in 1..(Len(text) - 2) :
        /\ text[k] = Backslash
        /\ text[k + 1] = Backslash
        /\ \E m \in 1..Len(EscapedMarks) : text[k + 2] = EscapedMarks[m]

\* C8, amended: unescaping twice gives what unescaping once gives for every text in
\* which no backslash is followed by a backslash and a mark; and a text made only of
\* backslash-escaped marks becomes its marks, no backslash left.
C8_IdempotentUnlessDoubled ==
    /\ (upc = "twice" /\ ~EscapedBackslashMark(uText)) => uTwice = uOnce
    /\ (upc \in {"once", "twice"} /\ EscapedMarksOnly(uText)) => uOnce = MarksOf(uText)

\* C8: a text of two escaped marks, or one with a backslash that stays, has been
\* unescaped twice
C8_Witness ==
    /\ upc = "twice"
    /\ ~EscapedBackslashMark(uText)
    /\ \/ EscapedMarksOnly(uText) /\ Len(uText) = 4
       \/ uText = <<Backslash, "a", Backslash, ".">>

\* C9: the first occurrence wins: a fingerprint stored for an identifier is never
\* replaced.
C9_FirstOccurrenceWins ==
    [][\A uuid \in DOMAIN converter.seenEntries :
          /\ uuid \in DOMAIN converter'.seenEntries
          /\ converter'.seenEntries[uuid] = converter.seenEntries[uuid]]_vars

\* C10: the step that skips an entry, the one that changes skippedDuplicates, adds
\* one to it and leaves the allocated file names, the dedup map, the media index,
\* the converted counts and the output archives as they were.
C10_SkipChangesCounterOnly ==
    [][converter'.skippedDuplicates # converter.skippedDuplicates
          => /\ converter'.skippedDuplicates = converter.skippedDuplicates + 1
             /\ converter'.usedFilenames = converter.usedFilenames
             /\ converter'.seenEntries = converter.seenEntries
             /\ converter'.photoMap = converter.photoMap
             /\ converted' = converted
             /\ outputZip' = outputZip]_vars

\* C10: an entry that declares an attachment has been skipped after an entry was written:
\* the list holds the declaring entry and the media index is still empty
C10_Witness ==
    /\ converter.skippedDuplicates > 0
    /\ converter.usedFilenames # {}
    /\ converter.photoMap = EmptyMap
    /\ \E c \in Calls : \E k \in 1..Len(entries[c]) : entries[c][k].photos # <<>>

====
